---- MODULE Spec2Model ----
(***************************************************************************)
(* A model of app.py: the Flask application that validates a form          *)
(* submission, appends it as a row to an Excel workbook on disk and        *)
(* uploads the workbook to S3.                                             *)
(*                                                                         *)
(* Python strings that the handler inspects (the form fields) are          *)
(* sequences of one-character strings, so that strip(), len(), isdigit(),  *)
(* split('@') and float() are computed and not assumed.  Messages, header  *)
(* cells and file names, which the code only copies, are TLA+ strings.     *)
(***************************************************************************)
EXTENDS Integers, Sequences, FiniteSets, TLC

VARIABLES
    EXCEL_FILE,   \* configured store file name (EXCEL_PATH is this name in the cwd)
    MULTIPLIER,   \* configured integer multiplier
    S3_BUCKET,    \* configured bucket name, "" when the variable is not set
    fs,           \* the working directory: file name -> rows of its sheet, <<>> = no such file
    s3,           \* the bucket: the keys of the objects stored in it
    s3_calls,     \* number of s3.upload_file calls made so far
    now,          \* the UTC clock as last read, in seconds
    phase,        \* "down" | "up": whether the server process is running
    pc,           \* per request thread: where it is in submit()
    req,          \* per request thread: the locals of submit()
    responses,    \* status code -> number of /submit responses returned with it
    out,          \* what the step just taken returned: an HTTP response, the result
                  \* of ensure_excel in __main__, or nothing
    vin,          \* a form handed to the validation path on its own
    vout          \* what the validation path made of vin

vars == <<EXCEL_FILE, MULTIPLIER, S3_BUCKET, fs, s3, s3_calls, now, phase, pc, req,
          responses, out, vin, vout>>

(***************************************************************************)
(* Bounds of the model.                                                    *)
(***************************************************************************)
MaxRequests == 2      \* /submit requests received in one behaviour
MaxClock == 1         \* the clock runs from 0 to MaxClock

(***************************************************************************)
(* Program constants.                                                      *)
(***************************************************************************)
DefaultMultiplier == 100
MinNameLen == 2
MinPhoneDigits == 6
MinZipLen == 3
MinBankLen == 2

Workers == {"t1", "t2"}
FileNames == {"submissions.xlsx", "data.xlsx"}
DefaultExcelFile == "submissions.xlsx"
DownloadName == "submissions.xlsx"
MultiplierValues == {DefaultMultiplier, 3}

Headers == <<"TimestampUTC", "Name", "Phone", "Email", "Zipcode", "Bank",
             "AmountSent", "ReopenedFlag">>

(***************************************************************************)
(* Python string operations.                                               *)
(***************************************************************************)
isspace(ch) == ch \in {" ", "\t"}

isdigit(ch) == ch \in {"0", "1", "2", "3", "4", "5", "6", "7", "8", "9"}

RECURSIVE lstrip(_)
lstrip(s) == IF s # <<>> /\ isspace(s[1]) THEN lstrip(Tail(s)) ELSE s

RECURSIVE rstrip(_)
rstrip(s) ==
    IF s # <<>> /\ isspace(s[Len(s)]) THEN rstrip(SubSeq(s, 1, Len(s) - 1)) ELSE s

strip(s) == rstrip(lstrip(s))

Contains(s, ch) == \E i \in DOMAIN s : s[i] = ch

\* s.split(ch)[-1]: what follows the last ch, the whole of s when it has none
SplitLast(s, ch) ==
    LET at == {i \in DOMAIN s : s[i] = ch}
    IN  IF at = {} THEN s
        ELSE SubSeq(s, (CHOOSE i \in at : \A j \in at : j <= i) + 1, Len(s))

DigitVal(ch) ==
    CASE ch = "0" -> 0 [] ch = "1" -> 1 [] ch = "2" -> 2 [] ch = "3" -> 3
      [] ch = "4" -> 4 [] ch = "5" -> 5 [] ch = "6" -> 6 [] ch = "7" -> 7
      [] ch = "8" -> 8 [] ch = "9" -> 9

RECURSIVE DigitsValue(_)
DigitsValue(s) ==
    IF s = <<>> THEN 0
    ELSE 10 * DigitsValue(SubSeq(s, 1, Len(s) - 1)) + DigitVal(s[Len(s)])

\* float(s) on strings over digits, signs, blanks and letters other than those of
\* "inf", "nan" and exponents: surrounding blanks are dropped, then an optional
\* sign and at least one digit; anything else raises ValueError (ok = FALSE).
float(s) ==
    LET t == strip(s)
        signed == t # <<>> /\ t[1] \in {"+", "-"}
        body == IF signed THEN Tail(t) ELSE t
        sign == IF signed /\ t[1] = "-" THEN -1 ELSE 1
    IN  IF body # <<>> /\ \A i \in DOMAIN body : isdigit(body[i])
        THEN [ok |-> TRUE, value |-> sign * DigitsValue(body)]
        ELSE [ok |-> FALSE, value |-> 0]

\* (request.form.get(key) or default): a missing field and an empty one both
\* give the default
GetOr(form, key, default) ==
    IF key \in DOMAIN form /\ form[key] # <<>> THEN form[key] ELSE default

(***************************************************************************)
(* submit(), lines 95-126: the part that touches nothing but the request.  *)
(***************************************************************************)
FormLocals(form) ==
    [name       |-> strip(GetOr(form, "name", <<>>)),
     phone      |-> strip(GetOr(form, "phone", <<>>)),
     email      |-> strip(GetOr(form, "email", <<>>)),
     zipcode    |-> strip(GetOr(form, "zipcode", <<>>)),
     bank       |-> strip(GetOr(form, "bank", <<>>)),
     amount_raw |-> strip(GetOr(form, "amount", <<>>)),
     reopened   |-> strip(GetOr(form, "reopened", <<"0">>))]

\* A mutant of ValidationError: the phone rule is tried before the name rule.
ValidationErrorPhoneFirst(l) ==
    IF l.phone = <<>> \/ Len(SelectSeq(l.phone, isdigit)) < MinPhoneDigits
    THEN "Phone looks invalid"
    ELSE IF l.name = <<>> \/ Len(l.name) < MinNameLen
    THEN "Name too short"
    ELSE IF l.email = <<>> \/ ~Contains(l.email, "@")
            \/ ~Contains(SplitLast(l.email, "@"), ".")
    THEN "Email looks invalid"
    ELSE IF l.zipcode = <<>> \/ Len(l.zipcode) < MinZipLen
    THEN "Zipcode looks invalid"
    ELSE IF l.bank = <<>> \/ Len(l.bank) < MinBankLen
    THEN "Bank name required"
    ELSE IF ~float(l.amount_raw).ok
    THEN "Amount is invalid"
    ELSE ""

\* The error message of the 400 response, "" when the request is accepted.
ValidationError(l) ==
    IF l.name = <<>> \/ Len(l.name) < MinNameLen
    THEN "Name too short"
    ELSE IF l.phone = <<>> \/ Len(SelectSeq(l.phone, isdigit)) < MinPhoneDigits
    THEN "Phone looks invalid"
    ELSE IF l.email = <<>> \/ ~Contains(l.email, "@")
            \/ ~Contains(SplitLast(l.email, "@"), ".")
    THEN "Email looks invalid"
    ELSE IF l.zipcode = <<>> \/ Len(l.zipcode) < MinZipLen
    THEN "Zipcode looks invalid"
    ELSE IF l.bank = <<>> \/ Len(l.bank) < MinBankLen
    THEN "Bank name required"
    ELSE IF ~float(l.amount_raw).ok
    THEN "Amount is invalid"
    ELSE ""

\* Lines 95-118: the locals of an accepted request with the parsed amount, or the
\* error of a rejected one.
Parse(form) ==
    LET l == FormLocals(form)
        e == ValidationError(l)
    IN  IF e # "" THEN [error |-> e]
        ELSE [error |-> "", name |-> l.name, phone |-> l.phone, email |-> l.email,
              zipcode |-> l.zipcode, bank |-> l.bank,
              raw_amount |-> float(l.amount_raw).value, reopened |-> l.reopened]

\* A mutant of BusinessRule: every flag other than "0" multiplies.
BusinessRuleNotZero(raw_amount, reopened, m) ==
    IF reopened # <<"0">>
    THEN [amount_sent |-> raw_amount * m, multiplied |-> TRUE]
    ELSE [amount_sent |-> raw_amount, multiplied |-> FALSE]

\* Lines 120-126.
BusinessRule(raw_amount, reopened, m) ==
    IF reopened = <<"1">>
    THEN [amount_sent |-> raw_amount * m, multiplied |-> TRUE]
    ELSE [amount_sent |-> raw_amount, multiplied |-> FALSE]

\* Line 130.
Row(ts, p, amount_sent) ==
    <<ts, p.name, p.phone, p.email, p.zipcode, p.bank, amount_sent, p.reopened>>

(***************************************************************************)
(* The forms a client sends.                                               *)
(***************************************************************************)
RawName == {<<>>, <<" ", "A", " ">>, <<"A", "l", " ">>}
RawPhone == {<<"1", "2", "-", "3", "4", "5">>, <<"1", "2", "3", "-", "4", "5", "6">>}
RawEmail == {<<"a", ".", "b">>, <<"a", ".", "b", "@", "c">>,
             <<"a", "@", "b", ".", "c", "@", "d">>, <<"a", "@", "b", ".", "c">>}
RawZipcode == {<<" ", "1", "2", " ">>, <<"1", "2", "3">>}
RawBank == {<<"B">>, <<"B", "K">>}
RawAmount == {<<>>, <<"1", "x">>, <<"-">>, <<" ", "-", "2", "5">>}
RawReopened == {<<>>, <<"0">>, <<"1">>, <<" ", "1", " ">>, <<"2">>}

FullForms ==
    [name : RawName, phone : RawPhone, email : RawEmail, zipcode : RawZipcode,
     bank : RawBank, amount : RawAmount, reopened : RawReopened]

\* An acceptable form, and the forms that leave a field of it out.
GoodForm ==
    [name |-> <<"A", "l", " ">>, phone |-> <<"1", "2", "3", "-", "4", "5", "6">>,
     email |-> <<"a", "@", "b", ".", "c">>, zipcode |-> <<"1", "2", "3">>,
     bank |-> <<"B", "K">>, amount |-> <<" ", "-", "2", "5">>, reopened |-> <<"1">>]

Without(form, key) == [k \in (DOMAIN form) \ {key} |-> form[k]]

Forms == FullForms \cup {Without(GoodForm, k) : k \in DOMAIN GoodForm}

\* More amounts, for the validation path on its own.
MoreAmounts == {<<"7">>, <<"+", "4", "0">>, <<"0", "0", "3">>, <<"-", "0">>, <<"4", " ", "0">>,
                <<"-", "-", "1">>, <<"5", "-">>}

FormsV ==
    Forms \cup {[GoodForm EXCEPT !.amount = a, !.reopened = r] :
                    a \in MoreAmounts, r \in RawReopened}

\* What lines 95-118 make of the forms: the choice of a form by the client,
\* seen after parsing.
ParsedForms == {Parse(f) : f \in Forms}

(***************************************************************************)
(* The validation path on its own: a form goes in, the outcome comes out.  *)
(***************************************************************************)
NoForm == [none |-> TRUE]
NoOutcome == [none |-> TRUE]

\* Lines 95-130 for one form: the 400 response, or the computed locals.
HandleForm(form, m) ==
    LET p == Parse(form)
    IN  IF p.error # ""
        THEN [status |-> 400, json |-> [success |-> FALSE, error |-> p.error]]
        ELSE LET br == BusinessRule(p.raw_amount, p.reopened, m)
             IN  [status |-> 0, error |-> "", amount |-> p.raw_amount,
                  amount_sent |-> br.amount_sent, reopened_received |-> p.reopened,
                  multiplied |-> br.multiplied]

ValidateForm ==
    /\ vin # NoForm
    /\ vout = NoOutcome
    /\ vout' = HandleForm(vin, MULTIPLIER)
    /\ UNCHANGED <<EXCEL_FILE, MULTIPLIER, S3_BUCKET, fs, s3, s3_calls, now, phase,
                   pc, req, responses, out, vin>>

(***************************************************************************)
(* The workbook file: ensure_excel and append_row_and_save.                *)
(*                                                                         *)
(* A file that exists holds the header row and then the data rows; the     *)
(* program never deletes a file, and every file it writes has the header   *)
(* row, so os.path.exists(path) is fs[path] # <<>>.  A failing file        *)
(* operation (fault) raises and leaves the file as it was.                 *)
(***************************************************************************)
exists(files, path) == files[path] # <<>>

\* Lines 32-36: a new workbook with the header row, saved at path.
CreateWorkbook(files, path, fault) ==
    IF fault THEN [fs |-> files, ok |-> FALSE, err |-> "traceback"]
    ELSE [fs |-> [files EXCEPT ![path] = <<Headers>>], ok |-> TRUE, err |-> ""]

\* A mutant of ensure_excel: the workbook is created whether or not the file exists.
ensure_excel_always(files, path, fault) == CreateWorkbook(files, path, fault)

\* Lines 27-39.
ensure_excel(files, path, fault) ==
    IF exists(files, path) THEN [fs |-> files, ok |-> TRUE, err |-> ""]
    ELSE CreateWorkbook(files, path, fault)

\* A mutant of AppendRow: the sheet is rebuilt from the header and the new row.
AppendRowFresh(wb, row) == <<Headers, row>>

\* Line 52: ws.append(row) on the loaded workbook.
AppendRow(wb, row) == Append(wb, row)

\* A mutant of SavedContent: the row is added to what the file holds at the save.
SavedContentMerged(current, wb, row) == AppendRow(current, row)

\* Lines 52-53: what wb.save leaves in the file, whatever the file holds by then.
SavedContent(current, wb, row) == AppendRow(wb, row)

(***************************************************************************)
(* Outputs.                                                                *)
(***************************************************************************)
NoOutput == [kind |-> "none"]

EmptyReq ==
    [row |-> <<>>, multiplied |-> FALSE, wb |-> <<>>, ok |-> FALSE, err |-> "",
     file_exists |-> FALSE]

None == [none |-> TRUE]
Skipped == [ok |-> FALSE, error |-> "S3_BUCKET not configured; skipping upload"]

\* Lines 105-118.
Response400(e) ==
    [kind |-> "submit", status |-> 400, json |-> [success |-> FALSE, error |-> e]]

\* Line 142.
ResponseSaveFailed(err) ==
    [kind |-> "submit", status |-> 500,
     json |-> [success |-> FALSE, error |-> "Failed to save Excel",
               save_trace |-> err, file_path |-> EXCEL_FILE]]

\* Line 145.
Response200(r, s3_result) ==
    [kind |-> "submit", status |-> 200,
     json |-> [success |-> TRUE, amount_sent |-> r.row[7],
               reopened_received |-> r.row[8], multiplied |-> r.multiplied,
               file_exists |-> r.file_exists, file_path |-> EXCEL_FILE,
               s3_upload |-> s3_result]]

\* Line 147.
ResponseException(exc) ==
    [kind |-> "submit", status |-> 500,
     json |-> [success |-> FALSE, error |-> exc, trace |-> "traceback"]]

InFlight(w) == pc[w] # "idle"

Received ==
    responses[200] + responses[400] + responses[500]
        + Cardinality({w \in Workers : InFlight(w)})

\* The request thread returns a response and is free for the next request.
Finish(w, response) ==
    /\ pc' = [pc EXCEPT ![w] = "idle"]
    /\ req' = [req EXCEPT ![w] = EmptyReq]
    /\ out' = response
    /\ responses' = [responses EXCEPT ![response.status] = @ + 1]

(***************************************************************************)
(* The process: __main__ (lines 162-167), or an import by a WSGI server.   *)
(***************************************************************************)
Main ==
    /\ phase = "down"
    /\ \E fault \in BOOLEAN :
         LET r == ensure_excel(fs, EXCEL_FILE, fault)
         IN  /\ fs' = r.fs
             /\ out' = [kind |-> "main", ok |-> r.ok, err |-> r.err]
    /\ phase' = "up"
    /\ UNCHANGED <<EXCEL_FILE, MULTIPLIER, S3_BUCKET, s3, s3_calls, now, pc, req,
                   responses, vin, vout>>

Serve ==
    /\ phase = "down"
    /\ phase' = "up"
    /\ out' = NoOutput
    /\ UNCHANGED <<EXCEL_FILE, MULTIPLIER, S3_BUCKET, fs, s3, s3_calls, now, pc, req,
                   responses, vin, vout>>

\* The process ends between requests; its files stay.
Stop ==
    /\ phase = "up"
    /\ \A w \in Workers : ~InFlight(w)
    /\ phase' = "down"
    /\ out' = NoOutput
    /\ UNCHANGED <<EXCEL_FILE, MULTIPLIER, S3_BUCKET, fs, s3, s3_calls, now, pc, req,
                   responses, vin, vout>>

\* datetime.utcnow(): the clock does not run backwards; t is the second read.
utcnow(t) ==
    /\ t \in now..MaxClock
    /\ now' = t

(***************************************************************************)
(* POST /submit, one request thread w.                                     *)
(***************************************************************************)
\* A mutant of Reject: the handler makes sure the store exists before it validates.
RejectAfterEnsure(w, e) ==
    /\ Finish(w, Response400(e))
    /\ fs' = ensure_excel(fs, EXCEL_FILE, FALSE).fs
    /\ UNCHANGED <<s3, s3_calls, now>>

\* Lines 104-118: one of the returns with 400.
Reject(w, e) ==
    /\ Finish(w, Response400(e))
    /\ UNCHANGED <<fs, s3, s3_calls, now>>

\* Lines 120-131: the row is built and append_row_and_save is entered.
Accept(w, p) ==
    LET br == BusinessRule(p.raw_amount, p.reopened, MULTIPLIER)
    IN  /\ \E t \in 0..MaxClock :
              /\ utcnow(t)
              /\ req' = [req EXCEPT ![w] =
                            [EmptyReq EXCEPT !.row = Row(t, p, br.amount_sent),
                                             !.multiplied = br.multiplied]]
        /\ pc' = [pc EXCEPT ![w] = "append"]
        /\ out' = NoOutput
        /\ UNCHANGED <<fs, s3, s3_calls, responses>>

\* Lines 93-131.
Submit(w) ==
    /\ phase = "up"
    /\ ~InFlight(w)
    /\ Received < MaxRequests
    /\ \E p \in ParsedForms :
         IF p.error # "" THEN Reject(w, p.error) ELSE Accept(w, p)
    /\ UNCHANGED <<EXCEL_FILE, MULTIPLIER, S3_BUCKET, phase, vin, vout>>

\* A mutant of ShouldUpload: the upload does not look at the result of the append.
ShouldUploadAlways(ok, bucket) == bucket # ""

\* Line 135.
ShouldUpload(ok, bucket) == ok /\ bucket # ""

\* Lines 131-145, from the return of append_row_and_save with (ok, err) and the
\* files as it left them: on to the upload, or the response.
AfterAppend(w, ok, err, files) ==
    LET r == [req[w] EXCEPT !.ok = ok, !.err = err,
                            !.file_exists = exists(files, EXCEL_FILE)]
    IN  IF ShouldUpload(ok, S3_BUCKET)
        THEN /\ pc' = [pc EXCEPT ![w] = "upload"]
             /\ req' = [req EXCEPT ![w] = [r EXCEPT !.wb = <<>>]]
             /\ out' = NoOutput
             /\ UNCHANGED responses
        ELSE Finish(w, IF ~ok THEN ResponseSaveFailed(err)
                       ELSE Response200(r, IF S3_BUCKET = "" THEN Skipped ELSE None))

\* Lines 44-45 and 31: the file is looked for (by append_row_and_save, and again by
\* ensure_excel when it was not there).
AppendCheck(w) ==
    /\ pc[w] = "append"
    /\ pc' = [pc EXCEPT ![w] = IF exists(fs, EXCEL_FILE) THEN "load" ELSE "create"]
    /\ out' = NoOutput
    /\ UNCHANGED <<EXCEL_FILE, MULTIPLIER, S3_BUCKET, fs, s3, s3_calls, now, phase,
                   req, responses, vin, vout>>

\* Lines 32-39 and 47-49: ensure_excel writes the header file, or fails.
Create(w) ==
    /\ pc[w] = "create"
    /\ \E fault \in BOOLEAN :
         LET r == CreateWorkbook(fs, EXCEL_FILE, fault)
         IN  /\ fs' = r.fs
             /\ IF r.ok
                THEN /\ pc' = [pc EXCEPT ![w] = "load"]
                     /\ out' = NoOutput
                     /\ UNCHANGED <<req, responses>>
                ELSE AfterAppend(w, FALSE, r.err, r.fs)
    /\ UNCHANGED <<EXCEL_FILE, MULTIPLIER, S3_BUCKET, s3, s3_calls, now, phase,
                   vin, vout>>

\* Lines 50-51: load_workbook reads the whole file, or raises.
Load(w) ==
    /\ pc[w] = "load"
    /\ \E fault \in BOOLEAN :
         IF fault \/ ~exists(fs, EXCEL_FILE)
         THEN AfterAppend(w, FALSE, "traceback", fs)
         ELSE /\ pc' = [pc EXCEPT ![w] = "save"]
              /\ req' = [req EXCEPT ![w].wb = fs[EXCEL_FILE]]
              /\ out' = NoOutput
              /\ UNCHANGED responses
    /\ UNCHANGED <<EXCEL_FILE, MULTIPLIER, S3_BUCKET, fs, s3, s3_calls, now, phase,
                   vin, vout>>

\* Lines 52-56: the row is appended to the loaded workbook and the whole workbook
\* is written over the file, or the save raises.
Save(w) ==
    /\ pc[w] = "save"
    /\ \E fault \in BOOLEAN :
         IF fault
         THEN /\ fs' = fs
              /\ AfterAppend(w, FALSE, "traceback", fs)
         ELSE LET files == [fs EXCEPT ![EXCEL_FILE] =
                               SavedContent(fs[EXCEL_FILE], req[w].wb, req[w].row)]
              IN  /\ fs' = files
                  /\ AfterAppend(w, TRUE, "", files)
    /\ UNCHANGED <<EXCEL_FILE, MULTIPLIER, S3_BUCKET, s3, s3_calls, now, phase,
                   vin, vout>>

\* Lines 58-73, 136 and 140-147: upload_to_s3 calls s3.upload_file.  The call
\* stores the file, or raises BotoCoreError or ClientError, which upload_to_s3
\* catches, or raises something else (boto3's S3UploadFailedError, an OSError),
\* which only the except of submit catches.
Upload(w) ==
    /\ pc[w] = "upload"
    /\ s3_calls' = s3_calls + 1
    /\ \E outcome \in {"stored", "client_error", "other_error"}, t \in 0..MaxClock :
         LET key == <<"submissions", t, EXCEL_FILE>>
             done(s3_result) ==
                 IF ~req[w].ok THEN ResponseSaveFailed(req[w].err)
                 ELSE Response200(req[w], s3_result)
         IN  /\ utcnow(t)
             /\ CASE outcome = "stored" ->
                        /\ s3' = s3 \cup {key}
                        /\ Finish(w, done([ok |-> TRUE, key |-> key,
                                           bucket |-> S3_BUCKET]))
                   [] outcome = "client_error" ->
                        /\ s3' = s3
                        /\ Finish(w, done([ok |-> FALSE, error |-> "ClientError",
                                           trace |-> "traceback"]))
                   [] outcome = "other_error" ->
                        /\ s3' = s3
                        /\ Finish(w, ResponseException("S3UploadFailedError"))
    /\ UNCHANGED <<EXCEL_FILE, MULTIPLIER, S3_BUCKET, fs, phase, vin, vout>>

(***************************************************************************)
(* GET /download, lines 150-159.  The attachment is the named file of the  *)
(* working directory, sent as it is at that moment.                        *)
(***************************************************************************)
Download ==
    /\ phase = "up"
    /\ out' = IF ~exists(fs, DownloadName)
              THEN [kind |-> "download", status |-> 404,
                    json |-> [error |-> "File not found. Submit once to create it."]]
              ELSE [kind |-> "download", status |-> 200, attachment |-> DownloadName]
    /\ UNCHANGED <<EXCEL_FILE, MULTIPLIER, S3_BUCKET, fs, s3, s3_calls, now, phase,
                   pc, req, responses, vin, vout>>

(***************************************************************************)
(* Specifications.                                                         *)
(***************************************************************************)
Init ==
    /\ EXCEL_FILE \in FileNames
    /\ MULTIPLIER = DefaultMultiplier
    /\ S3_BUCKET \in {"", "bucket"}
    /\ fs = [f \in FileNames |-> <<>>]
    /\ s3 = {}
    /\ s3_calls = 0
    /\ now = 0
    /\ phase = "down"
    /\ pc = [w \in Workers |-> "idle"]
    /\ req = [w \in Workers |-> EmptyReq]
    /\ responses = [c \in {200, 400, 500} |-> 0]
    /\ out = NoOutput
    /\ vin = NoForm
    /\ vout = NoOutcome

\* Request threads run concurrently.
Next ==
    \/ Main
    \/ Serve
    \/ Stop
    \/ Download
    \/ \E w \in Workers : Submit(w)
    \/ \E w \in Workers : AppendCheck(w)
    \/ \E w \in Workers : Create(w)
    \/ \E w \in Workers : Load(w)
    \/ \E w \in Workers : Save(w)
    \/ \E w \in Workers : Upload(w)

Spec == Init /\ [][Next]_vars

\* Requests run one at a time: a request is received only when no other is in
\* progress.
SubmitAlone(w) ==
    /\ \A v \in Workers : ~InFlight(v)
    /\ Submit(w)

SeqNext ==
    \/ Main
    \/ Serve
    \/ Stop
    \/ Download
    \/ \E w \in Workers : SubmitAlone(w)
    \/ \E w \in Workers : AppendCheck(w)
    \/ \E w \in Workers : Create(w)
    \/ \E w \in Workers : Load(w)
    \/ \E w \in Workers : Save(w)
    \/ \E w \in Workers : Upload(w)

SeqSpec == Init /\ [][SeqNext]_vars

\* The validation path alone, on every form and multiplier.
InitV ==
    /\ EXCEL_FILE = DefaultExcelFile
    /\ MULTIPLIER \in MultiplierValues
    /\ S3_BUCKET = ""
    /\ fs = [f \in FileNames |-> <<>>]
    /\ s3 = {}
    /\ s3_calls = 0
    /\ now = 0
    /\ phase = "down"
    /\ pc = [w \in Workers |-> "idle"]
    /\ req = [w \in Workers |-> EmptyReq]
    /\ responses = [c \in {200, 400, 500} |-> 0]
    /\ out = NoOutput
    /\ vin \in FormsV
    /\ vout = NoOutcome

NextV == ValidateForm

SpecV == InitV /\ [][NextV]_vars

(***************************************************************************)
(* Properties.                                                             *)
(***************************************************************************)
Store == fs[EXCEL_FILE]

Quiescent == \A w \in Workers : ~InFlight(w)

\* C1: with requests run one at a time from an absent store, the store holds
\* exactly N+1 rows, N being the number of requests that returned 200: the header
\* row and one 8-field data row for each.  Stated for a store that exists.
C1_RowsMatchSuccesses ==
    (Quiescent /\ exists(fs, EXCEL_FILE)) =>
        /\ Len(Store) = responses[200] + 1
        /\ Store[1] = Headers
        /\ \A i \in 2..Len(Store) : Len(Store[i]) = Len(Headers)

\* The number the amount field of a form denotes, for the amounts that parse.
DenotedAmount(s) ==
    CASE s = <<" ", "-", "2", "5">> -> 0 - 25
      [] s = <<"7">> -> 7
      [] s = <<"+", "4", "0">> -> 40
      [] s = <<"0", "0", "3">> -> 3
      [] s = <<"-", "0">> -> 0

Accepted == vout # NoOutcome /\ vout.status # 400

\* C2: for a submission that passes validation, amount_sent is amount * MULTIPLIER
\* and multiplied is true when the reopened flag is "1"; amount_sent is amount
\* and multiplied is false for every other flag, a missing flag counting as "0".
C2_MultiplierRule ==
    Accepted =>
        /\ vout.amount = DenotedAmount(vin.amount)
        /\ vout.reopened_received = <<"1">> =>
               vout.amount_sent = vout.amount * MULTIPLIER /\ vout.multiplied
        /\ vout.reopened_received # <<"1">> =>
               vout.amount_sent = vout.amount /\ ~vout.multiplied
        /\ "reopened" \notin DOMAIN vin =>
               vout.reopened_received = <<"0">> /\ ~vout.multiplied

C2_Witness ==
    /\ Accepted
    /\ vout.reopened_received = <<"1">>
    /\ vout.multiplied
    /\ vout.amount = 0 - 25
    /\ vout.amount_sent = (0 - 25) * MULTIPLIER
    /\ MULTIPLIER # 1

\* The six rules of the validator, on the fields as the handler reads them (a
\* missing field is empty, surrounding blanks are dropped).
Field(k) == strip(GetOr(vin, k, <<>>))

RuleName == Len(Field("name")) >= 2

RulePhone ==
    Cardinality({i \in DOMAIN Field("phone") : isdigit(Field("phone")[i])}) >= 6

RuleEmail ==
    LET e == Field("email")
    IN  /\ \E i \in DOMAIN e : e[i] = "@"
        /\ \E j \in DOMAIN e :
              e[j] = "." /\ \A i \in DOMAIN e : e[i] = "@" => i < j

RuleZipcode == Len(Field("zipcode")) >= 3

RuleBank == Len(Field("bank")) >= 2

RuleAmount ==
    LET a == Field("amount")
        digits == IF a # <<>> /\ a[1] \in {"+", "-"} THEN Tail(a) ELSE a
    IN  digits # <<>> /\ \A i \in DOMAIN digits : isdigit(digits[i])

FirstFailure ==
    CASE ~RuleName -> "Name too short"
      [] RuleName /\ ~RulePhone -> "Phone looks invalid"
      [] RuleName /\ RulePhone /\ ~RuleEmail -> "Email looks invalid"
      [] RuleName /\ RulePhone /\ RuleEmail /\ ~RuleZipcode -> "Zipcode looks invalid"
      [] RuleName /\ RulePhone /\ RuleEmail /\ RuleZipcode /\ ~RuleBank ->
             "Bank name required"
      [] OTHER -> "Amount is invalid"

AllRules == RuleName /\ RulePhone /\ RuleEmail /\ RuleZipcode /\ RuleBank /\ RuleAmount

\* C3: the request is accepted if and only if the six rules hold, and otherwise
\* the response is 400 with the message of the first rule, in the order name,
\* phone, email, zipcode, bank, amount, that fails; the six messages differ.
C3_FirstFailingRule ==
    vout # NoOutcome =>
        /\ vout.status # 400 <=> AllRules
        /\ vout.status = 400 =>
               /\ vout.json = [success |-> FALSE, error |-> FirstFailure]
        /\ Cardinality({"Name too short", "Phone looks invalid", "Email looks invalid",
                        "Zipcode looks invalid", "Bank name required",
                        "Amount is invalid"}) = 6

\* A form that breaks the phone rule and the email rule gets the phone message.
C3_Witness ==
    /\ vout # NoOutcome
    /\ vout.status = 400
    /\ RuleName /\ ~RulePhone /\ ~RuleEmail
    /\ vout.json.error = "Phone looks invalid"

\* The step in which request w, whose append succeeded, returns from the upload.
ReturnsAfterUpload(w) ==
    /\ pc[w] = "upload"
    /\ req[w].ok
    /\ pc'[w] = "idle"

\* C4: whenever the append of a valid submission succeeds, the request returns 200
\* with success = true, whatever the upload did; the upload's failure is in the
\* s3_upload object of the response.
C4_SyncNeverChangesStatus ==
    [][\A w \in Workers :
          ReturnsAfterUpload(w) =>
              /\ out'.kind = "submit"
              /\ out'.status = 200
              /\ out'.json.success
              /\ "s3_upload" \in DOMAIN out'.json]_vars

SaveFailedResponse ==
    [kind |-> "submit", status |-> 500,
     json |-> [success |-> FALSE, error |-> "Failed to save Excel",
               save_trace |-> "traceback", file_path |-> EXCEL_FILE]]

\* The step in which request w returns from append_row_and_save without an upload.
ReturnsFromAppend(w) ==
    /\ pc[w] \in {"create", "load", "save"}
    /\ pc'[w] = "idle"

\* C5: within a request, s3.upload_file is called only after the append of that
\* request succeeded; when the append fails the request returns 500 with the
\* trace and the store path, and no upload is attempted.
C5_UploadOnlyAfterAppend ==
    /\ [](\A w \in Workers : pc[w] = "upload" => req[w].ok)
    /\ [][/\ s3_calls' # s3_calls =>
                \E w \in Workers : pc[w] = "upload" /\ req[w].ok /\ pc'[w] = "idle"
          /\ \A w \in Workers :
                /\ (pc[w] \in {"create", "load", "save"} /\ pc'[w] = "upload") =>
                       (req'[w].ok /\ fs'[EXCEL_FILE] = Append(req[w].wb, req[w].row))
                /\ ReturnsFromAppend(w) =>
                       /\ s3_calls' = s3_calls /\ s3' = s3
                       /\ out' = SaveFailedResponse \/ out'.status = 200
                       /\ out' = SaveFailedResponse => fs' = fs
                       /\ out'.status = 200 =>
                              /\ S3_BUCKET = ""
                              /\ fs'[EXCEL_FILE] = Append(req[w].wb, req[w].row)
                /\ (InFlight(w) /\ pc'[w] = "idle" /\ out' = SaveFailedResponse) =>
                       pc[w] \in {"create", "load", "save"}]_vars

\* One request was uploaded after its append, another failed to append and
\* returned 500 with no further upload.
C5_Witness ==
    /\ S3_BUCKET # ""
    /\ s3_calls = 1
    /\ responses[200] = 1
    /\ out.kind = "submit"
    /\ out.status = 500
    /\ out.json.error = "Failed to save Excel"

\* C6: for every configured EXCEL_FILE, GET /download returns 404 while no
\* submission was accepted and the store was never created, and returns 200 with
\* the store once a submission has succeeded.
C6_DownloadServesStore ==
    out.kind = "download" =>
        /\ (responses[200] = 0 /\ ~exists(fs, EXCEL_FILE)) => out.status = 404
        /\ responses[200] >= 1 => (out.status = 200 /\ out.attachment = EXCEL_FILE)

\* C7: ensure_excel is idempotent: called on a store that exists, with or without
\* data rows, it leaves every row as it was; called on an absent store it leaves
\* the header row alone, or nothing when it fails; it touches no other file.
C7_EnsureIdempotent ==
    [][(phase = "down" /\ out'.kind = "main") =>
          /\ exists(fs, EXCEL_FILE) => (fs' = fs /\ out'.ok)
          /\ ~exists(fs, EXCEL_FILE) =>
                /\ fs'[EXCEL_FILE] = IF out'.ok THEN <<Headers>> ELSE <<>>
                /\ \A f \in FileNames \ {EXCEL_FILE} : fs'[f] = fs[f]]_vars

\* ensure_excel has just run, at a start of the process, on a store with data rows.
C7_Witness ==
    /\ out.kind = "main"
    /\ out.ok
    /\ Len(Store) >= 2

\* Every data row of the store is, after the step, where it was and as it was.
RowsKept ==
    \A i \in 2..Len(fs[EXCEL_FILE]) :
        /\ i <= Len(fs'[EXCEL_FILE])
        /\ fs'[EXCEL_FILE][i] = fs[EXCEL_FILE][i]

\* C8 as stated: once a data row is in the store it stays, with the same content
\* at the same position, under any sequence or interleaving of submit requests.
C8_RowsNeverChange == [][RowsKept]_vars

\* Request w writes the file from a copy that another request has overwritten
\* since w read it (for the header file: since w found it absent).
StaleWrite(w) ==
    /\ pc[w] \in {"create", "save"}
    /\ pc'[w] # pc[w]
    /\ req[w].wb # fs[EXCEL_FILE]

\* C8 amended: a data row of the store stays, with the same content at the same
\* position, in every step but the write of a request whose copy of the store is
\* stale; requests that do not overlap never make such a write.
C8_RowsChangeOnlyByStaleWrite ==
    [][RowsKept \/ \E w \in Workers : StaleWrite(w)]_vars

\* A second row was appended and the first is still there.
C8_Witness == Len(Store) >= 3

\* C9: a save writes the whole workbook the request loaded, plus its row, over
\* whatever the file holds by then, so of two overlapping requests the last
\* writer wins: both can return 200 with the row of only one in the store.
C9_LastWriterWins ==
    [][\A w \in Workers :
          (/\ pc[w] = "save"
           /\ pc'[w] = "upload" \/ (pc'[w] = "idle" /\ out'.status = 200)) =>
              fs'[EXCEL_FILE] = Append(req[w].wb, req[w].row)]_vars

\* Two requests have returned 200 and the store holds one data row.
C9_Witness ==
    /\ Quiescent
    /\ responses[200] = 2
    /\ responses[500] = 0
    /\ Len(Store) = 2

\* C10: a request rejected by validation leaves the files and the bucket as they
\* were and calls no upload.
C10_RejectHasNoEffect ==
    [][(out'.kind = "submit" /\ out'.status = 400) =>
          /\ fs' = fs
          /\ s3' = s3
          /\ s3_calls' = s3_calls]_vars

\* A request was rejected and there is still no store.
C10_Witness ==
    /\ out.kind = "submit"
    /\ out.status = 400
    /\ responses[400] >= 1
    /\ ~exists(fs, EXCEL_FILE)
    /\ phase = "up"

====
